---- MODULE Spec2Model ----
(***************************************************************************)
(* gridsim: the toroidal SquareGrid with its two direction sets.           *)
(*   neumann.rs  the 8-way Direction/Neighbors, from_grid_coord and the    *)
(*               parallel cycle (step, then update) over cells and diffs   *)
(*   moore.rs    the 4-way MooreDirection/MooreNeighbors, get_neighbors    *)
(*               and the take_move_* migration reads                       *)
(* Cell buffers are sequences; the cell with index i is element i + 1.     *)
(***************************************************************************)
EXTENDS Integers, Sequences, FiniteSets, TLC

\* ---------------------------------------------------------------- bounds
\* Largest number of cells of a grid (every shape w x h with w*h <= MaxCells).
MaxCells == 9
\* Number of cycle() calls a run makes.
MaxCycles == 2

\* Width of usize on the 64-bit targets.
UsizeBits == 64

VARIABLES
    width, height,   \* SquareGrid.width, SquareGrid.height
    build,           \* "debug" (overflow checks on) or "release" (wrapping)
    \* --- neumann.rs grid
    sim,             \* which S: Sim the grid runs
    cells,           \* SquareGrid.cells
    diffs,           \* SquareGrid.diffs
    pc,              \* position of the caller inside cycle()
    stepped,         \* indices whose step unit of work has completed
    collected,       \* the buffer collect() fills, one slot per index
    taken,           \* update's local `diffs` after the swap
    updated,         \* indices whose update unit of work has completed
    cycles,          \* completed cycle() calls
    wrapped,         \* some index computation wrapped around (release build)
    cells0,          \* the cells the grid was constructed with
    prev,            \* the cells at entry of the running/last cycle()
    hist,            \* history of the running/last cycle(): the calls made
                     \* and, for each diff, the unit of work that produced it
    \* --- single neighbor lookups
    qtopo, qi, qd, qpc, qn, qinv, qback,
    \* --- moore.rs grid with migration
    mcells, mpc, mstepped, mdiffs, moves, mupdated, incoming, mcycles,
    \* --- neighborhood containers
    ckind,           \* how the container comes about
    csup,            \* the supplier passed to new
    ci,              \* the index get_neighbors is called with
    ccalls,          \* the directions the supplier was called with, in order
    cvals,           \* what those calls returned
    cont,            \* the container, once there is one
    cpc,             \* position inside new / after it
    iters,           \* the sequences the iter() calls yielded
    diters,          \* the sequences the dir_iter() calls yielded
    \* --- MooreDirection <-> usize conversions
    vpc, vn, vd,     \* From<usize>: input, result
    wpc, wd, wn, wd2 \* Into<usize> and back

gridVars == <<width, height, build>>
neumannVars == <<sim, cells, diffs, pc, stepped, collected, taken, updated,
                 cycles, wrapped, cells0, prev, hist>>
queryVars == <<qtopo, qi, qd, qpc, qn, qinv, qback>>
mooreVars == <<mcells, mpc, mstepped, mdiffs, moves, mupdated, incoming, mcycles>>
containerVars == <<ckind, csup, ci, ccalls, cvals, cont, cpc, iters, diters>>
convVars == <<vpc, vn, vd, wpc, wd, wn, wd2>>
\* the containers and conversions, which no grid operation touches
sideVars == <<containerVars, convVars>>
vars == <<gridVars, neumannVars, queryVars, mooreVars, sideVars>>

\* ------------------------------------------------------------ grid shape
Shapes == {s \in (1..MaxCells) \X (1..MaxCells) : s[1] * s[2] <= MaxCells}
Builds == {"debug", "release"}

\* SquareGrid::size()
size == width * height
Indices == 0 .. (size - 1)

\* ------------------------------------------------- neumann.rs: Direction
Direction ==
    {"Right", "UpRight", "Up", "UpLeft", "Left", "DownLeft", "Down", "DownRight"}

inv_slip(d) ==
    CASE d = "Right" -> "Left"
      [] d = "UpRight" -> "DownLeft"
      [] d = "Up" -> "Down"
      [] d = "UpLeft" -> "DownLeft"
      [] d = "Left" -> "Right"
      [] d = "DownLeft" -> "UpRight"
      [] d = "Down" -> "Up"
      [] d = "DownRight" -> "UpLeft"

\* impl super::Direction for Direction { fn inv }
inv(d) ==
    CASE d = "Right" -> "Left"
      [] d = "UpRight" -> "DownLeft"
      [] d = "Up" -> "Down"
      [] d = "UpLeft" -> "DownRight"
      [] d = "Left" -> "Right"
      [] d = "DownLeft" -> "UpRight"
      [] d = "Down" -> "Up"
      [] d = "DownRight" -> "UpLeft"

\* ------------------------------------------- neumann.rs: index arithmetic
\* A usize expression `a + b - c ...` is the sequence of its signed terms,
\* evaluated left to right; a term is <<operand, sign>>.
Operand(name, i) ==
    CASE name = "size" -> size
      [] name = "i" -> i
      [] name = "one" -> 1
      [] name = "width" -> width

RECURSIVE Partial(_, _, _)
\* value of the first k terms, as a mathematical integer
Partial(terms, i, k) ==
    IF k = 0 THEN 0
    ELSE Partial(terms, i, k - 1) + terms[k][2] * Operand(terms[k][1], i)

Value(terms, i) == Partial(terms, i, Len(terms))

\* a subtraction goes below zero somewhere in the evaluation
Underflows(terms, i) == \E k \in 1..Len(terms) : Partial(terms, i, k) < 0

RECURSIVE Pow2Mod(_, _)
\* 2^k mod m, by squaring
Pow2Mod(k, m) ==
    IF k = 0 THEN 1 % m
    ELSE IF k % 2 = 1 THEN (2 * Pow2Mod(k - 1, m)) % m
    ELSE LET h == Pow2Mod(k \div 2, m) IN (h * h) % m

\* (v mod 2^UsizeBits) % m for a wrapped value v > -2^UsizeBits
WrappedMod(v, m) ==
    IF v >= 0 THEN v % m ELSE (Pow2Mod(UsizeBits, m) + (v % m)) % m

cs_unreduced(v) == v

\* let cs = |i| &self.cells[i % self.size()]  (get_cell does the same)
cs(v) == WrappedMod(v, size)

\* from_grid_coord: the argument of get_cell for each field of Neighbors
from_grid_coord(d) ==
    CASE d = "UpLeft" -> << <<"size", 1>>, <<"i", 1>>, <<"one", -1>>, <<"width", -1>> >>
      [] d = "Up" -> << <<"size", 1>>, <<"i", 1>>, <<"width", -1>> >>
      [] d = "UpRight" -> << <<"size", 1>>, <<"i", 1>>, <<"one", 1>>, <<"width", -1>> >>
      [] d = "Left" -> << <<"size", 1>>, <<"i", 1>>, <<"one", -1>> >>
      [] d = "Right" -> << <<"size", 1>>, <<"i", 1>>, <<"one", 1>> >>
      [] d = "DownLeft" -> << <<"size", 1>>, <<"i", 1>>, <<"one", -1>>, <<"width", 1>> >>
      [] d = "Down" -> << <<"size", 1>>, <<"i", 1>>, <<"width", 1>> >>
      [] d = "DownRight" -> << <<"size", 1>>, <<"i", 1>>, <<"one", 1>>, <<"width", 1>> >>

\* step: the 3 x 3 array of cs(...) arguments handed to S::step,
\* rows up / middle / down, columns left / centre / right
step_array(r, c) ==
    CASE r = 0 /\ c = 0 -> << <<"size", 1>>, <<"i", 1>>, <<"one", -1>>, <<"width", -1>> >>
      [] r = 0 /\ c = 1 -> << <<"size", 1>>, <<"i", 1>>, <<"width", -1>> >>
      [] r = 0 /\ c = 2 -> << <<"size", 1>>, <<"i", 1>>, <<"one", 1>>, <<"width", -1>> >>
      [] r = 1 /\ c = 0 -> << <<"size", 1>>, <<"i", 1>>, <<"one", -1>> >>
      [] r = 1 /\ c = 1 -> << <<"size", 1>>, <<"i", 1>> >>
      [] r = 1 /\ c = 2 -> << <<"size", 1>>, <<"i", 1>>, <<"one", 1>> >>
      [] r = 2 /\ c = 0 -> << <<"size", 1>>, <<"i", 1>>, <<"one", -1>>, <<"width", 1>> >>
      [] r = 2 /\ c = 1 -> << <<"size", 1>>, <<"i", 1>>, <<"width", 1>> >>
      [] r = 2 /\ c = 2 -> << <<"size", 1>>, <<"i", 1>>, <<"one", 1>>, <<"width", 1>> >>

RECURSIVE Coefficient(_, _, _)
\* the signed number of times operand `name` occurs in the first k terms
Coefficient(terms, name, k) ==
    IF k = 0 THEN 0
    ELSE Coefficient(terms, name, k - 1)
         + (IF terms[k][1] = name THEN terms[k][2] ELSE 0)

\* the offset (dx, dy) from_grid_coord uses for the field of direction d:
\* dx counts the 1s, dy counts the widths
neumann_delta(d) ==
    LET t == from_grid_coord(d)
    IN <<Coefficient(t, "one", Len(t)), Coefficient(t, "width", Len(t))>>

\* ---------------------------------------------- moore.rs: MooreDirection
MooreDirection == {"Right", "Up", "Left", "Down"}

\* MooreDirection::directions(): the variants in declaration order
directions == <<"Right", "Up", "Left", "Down">>

\* MooreDirection::delta
delta(d) ==
    CASE d = "Right" -> <<1, 0>>
      [] d = "Up" -> <<0, -1>>
      [] d = "Left" -> <<-1, 0>>
      [] d = "Down" -> <<0, 1>>

\* Direction::inv for MooreDirection: the direction with the opposite offset
moore_inv(d) ==
    CHOOSE e \in MooreDirection :
        delta(e) = <<0 - delta(d)[1], 0 - delta(d)[2]>>

\* SquareGrid::delta_index: each axis wraps on its own
delta_index(i, dl) ==
    (((i % width) + dl[1]) % width)
    + width * ((((i \div width) + dl[2])) % height)

\* ------------------------------------------- neumann.rs: the simulations
\* The S: Sim a grid is instantiated with.  CopyEast and SumAll are Rules
\* run through the blanket `impl Sim for T: Rule`; Accumulate is a Sim whose
\* update folds the diff into the cell.
Sims == {"CopyEast", "SumAll", "Accumulate"}

NoDiff == -1

\* the simulations given as a Rule
Rules == {"CopyEast", "SumAll"}

\* Rule::rule(cell, neighbors) of the two Rules; the neighbors are the eight
\* entries of the array a around its centre
rule(s, cell, a) ==
    CASE s = "CopyEast" -> a[1][2]
      [] s = "SumAll" ->
            (cell + a[0][0] + a[0][1] + a[0][2] + a[1][0] + a[1][2]
             + a[2][0] + a[2][1] + a[2][2]) % size

\* impl Sim for T: Rule, step: (Self::rule(cell.clone(), neighbors), ())
Rule_step(s, cell, a) == <<rule(s, cell, a), "unit">>

Rule_update_keep(cell, diff, mv) == cell

\* impl Sim for T: Rule, update: *cell = diff
Rule_update(cell, diff, mv) == diff

\* S::step on the 3 x 3 array a (a[1][1] is the cell itself): the diff
S_step(s, a) ==
    IF s \in Rules THEN Rule_step(s, a[1][1], a)[1] ELSE a[1][0]

\* S::update(cell, diff): the new value of the cell
S_update(s, cell, diff) ==
    IF s \in Rules THEN Rule_update(cell, diff, "unit") ELSE (cell + diff) % size

\* ------------------------------------------------ neumann.rs: step phase
\* index of the cell cs(...) yields for position (r, c) of the array of i
StepIndex(r, c, i) == cs(Value(step_array(r, c), i))

\* some cs(...) argument of index i subtracts below zero
StepUnderflows(i) ==
    \E r \in 0..2, c \in 0..2 : Underflows(step_array(r, c), i)

\* the array of cell values the closure of step builds for index i
StepInput(buf, i) ==
    [r \in 0..2 |-> [c \in 0..2 |-> buf[StepIndex(r, c, i) + 1]]]

\* the cells a grid is constructed with: every cell a state of its own, so
\* that a cell's state tells which cell it was read from
InitCells == { [k \in 1..size |-> k - 1] }

\* the state of the other parts of the model while one part runs
QueryIdle ==
    /\ qtopo = "none" /\ qi = 0 /\ qd = "Right" /\ qpc = "off"
    /\ qn = 0 /\ qinv = "Right" /\ qback = 0

MooreIdle ==
    /\ mcells = <<>> /\ mpc = "off" /\ mstepped = {} /\ mdiffs = <<>>
    /\ moves = <<>> /\ mupdated = {} /\ incoming = <<>> /\ mcycles = 0

ContainerIdle ==
    /\ ckind = "none" /\ csup = <<>> /\ ci = 0 /\ ccalls = <<>> /\ cvals = <<>>
    /\ cont = <<>> /\ cpc = "off" /\ iters = <<>> /\ diters = <<>>
    /\ vpc = "off" /\ vn = 0 /\ vd = "none"
    /\ wpc = "off" /\ wd = "none" /\ wn = 0 /\ wd2 = "none"

NeumannIdle ==
    /\ sim = "CopyEast" /\ cells = <<>> /\ diffs = <<>> /\ pc = "off"
    /\ stepped = {} /\ collected = <<>> /\ taken = <<>> /\ updated = {}
    /\ cycles = 0 /\ wrapped = FALSE /\ cells0 = <<>> /\ prev = <<>>
    /\ hist = <<>>

\* the diff of a slot nobody produced: <<index, cycle>> of no unit of work
NoTag == <<0 - 1, 0 - 1>>

\* no call made yet in this cycle(); the diffs held keep their producers
HistEntry(h) ==
    [steps |-> [i \in Indices |-> 0], updates |-> [i \in Indices |-> 0],
     made |-> [k \in 1..size |-> NoTag], held |-> h, moved |-> <<>>,
     used |-> [i \in Indices |-> NoTag]]

\* S::step called for index i, its diff stored in slot k of the collect buffer
HistStep(i, k) ==
    [hist EXCEPT !.steps[i] = @ + 1, !.made[k] = <<i, cycles>>]

\* S::update called for index i with the diff of slot i
HistUpdate(i) ==
    [hist EXCEPT !.updates[i] = @ + 1, !.used[i] = hist.moved[i + 1]]

\* SquareGrid after construction
Init ==
    /\ \E s \in Shapes : width = s[1] /\ height = s[2]
    /\ build \in Builds
    /\ sim \in Sims
    /\ cells \in InitCells
    /\ diffs = [k \in 1..size |-> NoDiff]
    /\ pc = "idle"
    /\ stepped = {} /\ updated = {}
    /\ collected = <<>> /\ taken = <<>>
    /\ cycles = 0 /\ wrapped = FALSE
    /\ cells0 = cells /\ prev = cells
    /\ hist = HistEntry([k \in 1..size |-> NoTag])
    /\ QueryIdle /\ MooreIdle /\ ContainerIdle

\* cycle(): entry, up to the start of the parallel iterator of step
cycle ==
    /\ pc = "idle" /\ cycles < MaxCycles
    /\ pc' = "step"
    /\ stepped' = {}
    /\ collected' = [k \in 1..size |-> NoDiff]
    /\ prev' = cells
    /\ hist' = HistEntry(hist.held)
    /\ UNCHANGED <<sim, cells, diffs, taken, updated, cycles, wrapped, cells0>>
    /\ UNCHANGED <<gridVars, sideVars, queryVars, mooreVars>>

step_unit_inplace(i) ==
    /\ pc = "step" /\ i \in Indices \ stepped
    /\ ~(build = "debug" /\ StepUnderflows(i))
    /\ collected' = [collected EXCEPT ![i + 1] = S_step(sim, StepInput(cells, i))]
    /\ cells' = [cells EXCEPT ![i + 1] = S_step(sim, StepInput(cells, i))]
    /\ stepped' = stepped \cup {i}
    /\ wrapped' = (wrapped \/ StepUnderflows(i))
    /\ hist' = HistStep(i, i + 1)
    /\ UNCHANGED <<sim, diffs, pc, taken, updated, cycles, cells0, prev>>
    /\ UNCHANGED <<gridVars, sideVars, queryVars, mooreVars>>

step_unit_unordered(i) ==
    /\ pc = "step" /\ i \in Indices \ stepped
    /\ ~(build = "debug" /\ StepUnderflows(i))
    /\ collected' = [collected EXCEPT ![Cardinality(stepped) + 1] =
                                        S_step(sim, StepInput(cells, i))]
    /\ stepped' = stepped \cup {i}
    /\ wrapped' = (wrapped \/ StepUnderflows(i))
    /\ hist' = HistStep(i, Cardinality(stepped) + 1)
    /\ UNCHANGED <<sim, cells, diffs, pc, taken, updated, cycles, cells0, prev>>
    /\ UNCHANGED <<gridVars, sideVars, queryVars, mooreVars>>

\* step: the unit of work of index i, .map(|i| [...]).map(S::step)
step_unit(i) ==
    /\ pc = "step" /\ i \in Indices \ stepped
    /\ ~(build = "debug" /\ StepUnderflows(i))
    /\ collected' = [collected EXCEPT ![i + 1] = S_step(sim, StepInput(cells, i))]
    /\ stepped' = stepped \cup {i}
    /\ wrapped' = (wrapped \/ StepUnderflows(i))
    /\ hist' = HistStep(i, i + 1)
    /\ UNCHANGED <<sim, cells, diffs, pc, taken, updated, cycles, cells0, prev>>
    /\ UNCHANGED <<gridVars, sideVars, queryVars, mooreVars>>

\* step: the unit of work of index i panics on `attempt to subtract with
\* overflow`; the panic unwinds through cycle()
step_panic(i) ==
    /\ pc = "step" /\ i \in Indices \ stepped
    /\ build = "debug" /\ StepUnderflows(i)
    /\ pc' = "panicked"
    /\ UNCHANGED <<sim, cells, diffs, stepped, collected, taken, updated, cycles,
                   wrapped, cells0, prev, hist>>
    /\ UNCHANGED <<gridVars, sideVars, queryVars, mooreVars>>

step_joined_early == stepped # {}

\* collect() returns once every unit of work of the iterator has run
step_joined == stepped = Indices

\* step: self.diffs = { ... .collect() }, and step returns
step_collect ==
    /\ pc = "step" /\ step_joined
    /\ diffs' = collected
    /\ pc' = "stepped"
    /\ hist' = [hist EXCEPT !.held = hist.made]
    /\ UNCHANGED <<sim, cells, stepped, collected, taken, updated, cycles, wrapped,
                   cells0, prev>>
    /\ UNCHANGED <<gridVars, sideVars, queryVars, mooreVars>>

update_begin_clone ==
    /\ pc = "stepped"
    /\ taken' = diffs
    /\ diffs' = diffs
    /\ hist' = [hist EXCEPT !.moved = hist.held]
    /\ updated' = {}
    /\ pc' = "update"
    /\ UNCHANGED <<sim, cells, stepped, collected, cycles, wrapped, cells0, prev>>
    /\ UNCHANGED <<gridVars, sideVars, queryVars, mooreVars>>

\* update: let mut diffs = Default::default(); swap(&mut diffs, &mut self.diffs)
update_begin ==
    /\ pc = "stepped"
    /\ taken' = diffs
    /\ diffs' = <<>>
    /\ hist' = [hist EXCEPT !.moved = hist.held, !.held = <<>>]
    /\ updated' = {}
    /\ pc' = "update"
    /\ UNCHANGED <<sim, cells, stepped, collected, cycles, wrapped, cells0, prev>>
    /\ UNCHANGED <<gridVars, sideVars, queryVars, mooreVars>>

\* the pairs the zip of cells and diffs yields: as many as the shorter one
ZipLen == IF Len(cells) <= Len(taken) THEN Len(cells) ELSE Len(taken)

\* update: the unit of work of index i, S::update(cell, diff)
update_unit(i) ==
    /\ pc = "update" /\ i \in (0 .. (ZipLen - 1)) \ updated
    /\ cells' = [cells EXCEPT ![i + 1] = S_update(sim, cells[i + 1], taken[i + 1])]
    /\ updated' = updated \cup {i}
    /\ hist' = HistUpdate(i)
    /\ UNCHANGED <<sim, diffs, pc, stepped, collected, taken, cycles, wrapped,
                   cells0, prev>>
    /\ UNCHANGED <<gridVars, sideVars, queryVars, mooreVars>>

\* update: for_each has run every pair; update and cycle() return
update_end ==
    /\ pc = "update" /\ updated = 0 .. (ZipLen - 1)
    /\ pc' = "idle"
    /\ cycles' = cycles + 1
    /\ taken' = <<>>
    /\ hist' = [hist EXCEPT !.moved = <<>>]
    /\ UNCHANGED <<sim, cells, diffs, stepped, collected, updated, wrapped, cells0,
                   prev>>
    /\ UNCHANGED <<gridVars, sideVars, queryVars, mooreVars>>

Next ==
    \/ cycle
    \/ \E i \in Indices : step_unit(i)
    \/ \E i \in Indices : step_panic(i)
    \/ step_collect
    \/ update_begin
    \/ \E i \in Indices : update_unit(i)
    \/ update_end

Spec == Init /\ [][Next]_vars

\* ------------------------------------------ the cycle, run sequentially
\* one cycle() with the units of work run one after the other, on buffer buf
RefCycle(buf) ==
    [k \in 1..size |-> S_update(sim, buf[k], S_step(sim, StepInput(buf, k - 1)))]

RECURSIVE RefRun(_, _)
RefRun(buf, n) == IF n = 0 THEN buf ELSE RefCycle(RefRun(buf, n - 1))

\* ------------------------------------------------------ claims under Spec

\* C4 (as claimed): copy-east on the 3 x 3 grid: after one cycle() every cell
\* holds the pre-cycle state of the cell delta_index(i, delta(Right)), the
\* right-most column that of column 0 of its own row.
C4_CopyEastPerAxis ==
    (sim = "CopyEast" /\ width = 3 /\ height = 3 /\ pc = "idle" /\ cycles = 1)
        => \A i \in Indices : cells[i + 1] = prev[delta_index(i, delta("Right")) + 1]

\* C5: no update unit of work runs before every step unit of work of the
\* same cycle has completed: once update has the diffs, every index has been
\* stepped and every diff it holds was produced by a step.
C5_BarrierOrdering ==
    (pc = "update")
        => /\ stepped = Indices
           /\ Len(taken) = size
           /\ \A k \in 1..size : taken[k] # NoDiff

C5_Witness ==
    pc = "update" /\ size >= 4 /\ updated # {} /\ updated # Indices /\ cycles = 1

\* C6: whatever the order the units of work of a phase run in, after N calls of
\* cycle() the cells are those of the sequential run of N cycles from the same
\* initial cells, so two grids built alike never differ.
C6_Determinism ==
    (pc = "idle") => cells = RefRun(cells0, cycles)

C6_Witness ==
    pc = "idle" /\ cycles >= 2 /\ size >= 4 /\ sim = "SumAll" /\ cells # cells0

C8_NoFallibleIndexArithmetic ==
    pc # "panicked" /\ ~wrapped

\* --------------------------------------------- single neighbor lookups
\* index of the cell from_grid_coord stores under direction d for cell i:
\* self.get_cell(<expression>), get_cell reducing modulo size like cs
neumann_neighbor(i, d) == cs(Value(from_grid_coord(d), i))

MooreNeighbors_new_slip(f) ==
    [right |-> f["Right"], up |-> f["Up"], left |-> f["Right"], down |-> f["Down"]]

\* MooreNeighbors::new: the supplier f once per field, in declaration order
MooreNeighbors_new(f) ==
    [right |-> f["Right"], up |-> f["Up"], left |-> f["Left"], down |-> f["Down"]]

MooreIndex_slip(nb, ix) ==
    CASE ix = "Right" -> nb.right
      [] ix = "Up" -> nb.up
      [] ix = "Left" -> nb.right
      [] ix = "Down" -> nb.down

\* impl Index<MooreDirection> for MooreNeighbors
MooreIndex(nb, ix) ==
    CASE ix = "Right" -> nb.right
      [] ix = "Up" -> nb.up
      [] ix = "Left" -> nb.left
      [] ix = "Down" -> nb.down

\* get_neighbors: the neighborhood of references of cell ix, a reference
\* being the index of the cell it points to
get_neighbors(ix) ==
    MooreNeighbors_new([dir \in MooreDirection |-> delta_index(ix, delta(dir))])

\* a grid of any shape, about to look one neighbor up and walk back
InitQuery ==
    /\ \E s \in Shapes : width = s[1] /\ height = s[2]
    /\ build \in Builds
    /\ qtopo = "none" /\ qi = 0 /\ qd = "Right" /\ qpc = "ask"
    /\ qn = 0 /\ qinv = "Right" /\ qback = 0
    /\ NeumannIdle /\ MooreIdle /\ ContainerIdle

\* the 8-way neighbor of cell i in direction d
fetch_neumann(i, d) ==
    /\ qpc = "ask"
    /\ ~(build = "debug" /\ Underflows(from_grid_coord(d), i))
    /\ qtopo' = "neumann" /\ qi' = i /\ qd' = d
    /\ qn' = neumann_neighbor(i, d)
    /\ qpc' = "fetched"
    /\ UNCHANGED <<qinv, qback, gridVars, sideVars, neumannVars, mooreVars>>

\* the lookup panics on `attempt to subtract with overflow`
fetch_neumann_panic(i, d) ==
    /\ qpc = "ask"
    /\ build = "debug" /\ Underflows(from_grid_coord(d), i)
    /\ qtopo' = "neumann" /\ qi' = i /\ qd' = d
    /\ qpc' = "panicked"
    /\ UNCHANGED <<qn, qinv, qback, gridVars, sideVars, neumannVars, mooreVars>>

\* the 4-way neighbor of cell i in direction d
fetch_moore(i, d) ==
    /\ qpc = "ask"
    /\ qtopo' = "moore" /\ qi' = i /\ qd' = d
    /\ qn' = MooreIndex(get_neighbors(i), d)
    /\ qpc' = "fetched"
    /\ UNCHANGED <<qinv, qback, gridVars, sideVars, neumannVars, mooreVars>>

\* from the neighbor found, the neighbor in the inverse direction
back_neumann ==
    /\ qpc = "fetched" /\ qtopo = "neumann"
    /\ ~(build = "debug" /\ Underflows(from_grid_coord(inv(qd)), qn))
    /\ qinv' = inv(qd)
    /\ qback' = neumann_neighbor(qn, inv(qd))
    /\ qpc' = "returned"
    /\ UNCHANGED <<qtopo, qi, qd, qn, gridVars, sideVars, neumannVars, mooreVars>>

back_neumann_panic ==
    /\ qpc = "fetched" /\ qtopo = "neumann"
    /\ build = "debug" /\ Underflows(from_grid_coord(inv(qd)), qn)
    /\ qinv' = inv(qd)
    /\ qpc' = "panicked"
    /\ UNCHANGED <<qtopo, qi, qd, qn, qback, gridVars, sideVars, neumannVars, mooreVars>>

back_moore ==
    /\ qpc = "fetched" /\ qtopo = "moore"
    /\ qinv' = moore_inv(qd)
    /\ qback' = MooreIndex(get_neighbors(qn), moore_inv(qd))
    /\ qpc' = "returned"
    /\ UNCHANGED <<qtopo, qi, qd, qn, gridVars, sideVars, neumannVars, mooreVars>>

NextQuery ==
    \/ \E i \in Indices, d \in Direction : fetch_neumann(i, d)
    \/ \E i \in Indices, d \in Direction : fetch_neumann_panic(i, d)
    \/ \E i \in Indices, d \in MooreDirection : fetch_moore(i, d)
    \/ back_neumann
    \/ back_neumann_panic
    \/ back_moore

SpecQuery == InitQuery /\ [][NextQuery]_vars

\* ------------------------------------------------- claims under SpecQuery
\* the offset of the direction looked up, in its own direction set
QueryDelta == IF qtopo = "moore" THEN delta(qd) ELSE neumann_delta(qd)

\* C3 (as claimed): the neighbor fetched for cell i in direction d with offset
\* (dx, dy) is ((i % w) + dx) mod w + w * (((i / w) + dy) mod h): column and
\* row wrap independently.
C3_PerAxisWraparound ==
    (qpc \in {"fetched", "returned"}) => qn = delta_index(qi, QueryDelta)

\* C9 (as claimed): looking up the neighbor in direction d and from there the
\* neighbor in direction inv(d) returns to the cell started from.
C9_IndexRoundTrip ==
    (qpc = "returned") => qback = qi

\* C10: in both direction sets inv is an involution and a bijection, and the
\* offsets of a direction and of its inverse add up to (0, 0).
C10_DirectionInverse ==
    /\ \A d \in Direction :
          /\ inv(d) \in Direction
          /\ inv(inv(d)) = d
          /\ neumann_delta(d)[1] + neumann_delta(inv(d))[1] = 0
          /\ neumann_delta(d)[2] + neumann_delta(inv(d))[2] = 0
    /\ {inv(d) : d \in Direction} = Direction
    /\ \A d \in MooreDirection :
          /\ moore_inv(d) \in MooreDirection
          /\ moore_inv(moore_inv(d)) = d
          /\ delta(d)[1] + delta(moore_inv(d))[1] = 0
          /\ delta(d)[2] + delta(moore_inv(d))[2] = 0
    /\ {moore_inv(d) : d \in MooreDirection} = MooreDirection
    /\ (qpc = "returned" /\ qtopo = "neumann") => inv(qinv) = qd
    /\ (qpc = "returned" /\ qtopo = "moore") => moore_inv(qinv) = qd

C10_Witness ==
    qpc = "returned" /\ qtopo = "neumann" /\ qd = "UpLeft" /\ qinv = "DownRight"

\* ------------------------------------------- moore.rs: payload migration
\* The payload cell n emits toward direction d in cycle c is <<n, d, c>>: the
\* name of its slot, so that a copy of it tells which slot it was read from.
NoMoves == [right |-> "none", up |-> "none", left |-> "none", down |-> "none"]

\* SquareGrid::get_move_neighbors: the moves cell ix emitted in the step phase
get_move_neighbors(ix) == moves[ix + 1]

\* take_move_direction: a bitwise copy of one slot of cell ix
take_move_direction(ix, dir) == MooreIndex(get_move_neighbors(ix), dir)

take_move_neighbors_same_dir(ix) ==
    MooreNeighbors_new(
        [dir \in MooreDirection |->
            take_move_direction(delta_index(ix, delta(dir)), dir)])

\* take_move_neighbors: from each neighbor, the slot that points back here
take_move_neighbors(ix) ==
    MooreNeighbors_new(
        [dir \in MooreDirection |->
            take_move_direction(delta_index(ix, delta(dir)), moore_inv(dir))])

\* S::step of the migrating simulation: the diff is the state of the Right
\* neighbor, and one payload is emitted toward each direction
moore_step_diff(nb) == mcells[nb.right + 1]
moore_step_moves(ix) ==
    MooreNeighbors_new([dir \in MooreDirection |-> <<ix, dir, mcycles>>])

InitMoore ==
    /\ \E s \in Shapes : width = s[1] /\ height = s[2]
    /\ build = "release"
    /\ mcells = [k \in 1..size |-> k - 1]
    /\ mdiffs = [k \in 1..size |-> NoDiff]
    /\ moves = [k \in 1..size |-> NoMoves]
    /\ incoming = [k \in 1..size |-> NoMoves]
    /\ mpc = "idle" /\ mstepped = {} /\ mupdated = {} /\ mcycles = 0
    /\ NeumannIdle /\ QueryIdle /\ ContainerIdle

\* cycle(): entry
moore_cycle ==
    /\ mpc = "idle" /\ mcycles < MaxCycles
    /\ mpc' = "step"
    /\ mstepped' = {} /\ mupdated' = {}
    /\ incoming' = [k \in 1..size |-> NoMoves]
    /\ UNCHANGED <<mcells, mdiffs, moves, mcycles, gridVars, sideVars, neumannVars, queryVars>>

\* step phase, index i: step(cell, get_neighbors(i)) into diff and moves of i
moore_step_unit(i) ==
    /\ mpc = "step" /\ i \in Indices \ mstepped
    /\ mdiffs' = [mdiffs EXCEPT ![i + 1] = moore_step_diff(get_neighbors(i))]
    /\ moves' = [moves EXCEPT ![i + 1] = moore_step_moves(i)]
    /\ mstepped' = mstepped \cup {i}
    /\ UNCHANGED <<mcells, mpc, mupdated, incoming, mcycles, gridVars, sideVars, neumannVars,
                   queryVars>>

\* the barrier between the phases
moore_barrier ==
    /\ mpc = "step" /\ mstepped = Indices
    /\ mpc' = "update"
    /\ UNCHANGED <<mcells, mstepped, mdiffs, moves, mupdated, incoming, mcycles,
                   gridVars, sideVars, neumannVars, queryVars>>

\* update phase, index i: update(cell, diff, take_move_neighbors(i))
moore_update_unit(i) ==
    /\ mpc = "update" /\ i \in Indices \ mupdated
    /\ incoming' = [incoming EXCEPT ![i + 1] = take_move_neighbors(i)]
    /\ mcells' = [mcells EXCEPT ![i + 1] = mdiffs[i + 1]]
    /\ mupdated' = mupdated \cup {i}
    /\ UNCHANGED <<mpc, mstepped, mdiffs, moves, mcycles, gridVars, sideVars, neumannVars,
                   queryVars>>

\* cycle() returns
moore_end ==
    /\ mpc = "update" /\ mupdated = Indices
    /\ mpc' = "idle"
    /\ mcycles' = mcycles + 1
    /\ UNCHANGED <<mcells, mstepped, mdiffs, moves, mupdated, incoming, gridVars, sideVars,
                   neumannVars, queryVars>>

NextMoore ==
    \/ moore_cycle
    \/ \E i \in Indices : moore_step_unit(i)
    \/ moore_barrier
    \/ \E i \in Indices : moore_update_unit(i)
    \/ moore_end

SpecMoore == InitMoore /\ [][NextMoore]_vars

\* ------------------------------------------------- claims under SpecMoore
\* what destination i holds under direction dir of its incoming moves
Received(i, dir) ==
    LET nb == incoming[i + 1]
    IN CASE dir = "Right" -> nb.right
         [] dir = "Up" -> nb.up
         [] dir = "Left" -> nb.left
         [] dir = "Down" -> nb.down

\* the copies made so far of the payload in slot (n, d) of this cycle
Copies(n, d) ==
    {t \in mupdated \X MooreDirection : Received(t[1], t[2]) = <<n, d, mcycles>>}

\* C1: each outgoing slot (sender n, direction d) is copied at most once while
\* the update phase runs and exactly once, by exactly one destination cell,
\* when it has run for every index.
C1_ExactlyOnce ==
    (mpc = "update") =>
        \A n \in Indices, d \in MooreDirection :
            /\ Cardinality(Copies(n, d)) <= 1
            /\ (mupdated = Indices) =>
                  /\ Cardinality(Copies(n, d)) = 1
                  /\ Cardinality({t[1] : t \in Copies(n, d)}) = 1

C1_Witness ==
    mpc = "update" /\ mupdated = Indices /\ width = 2 /\ height = 1 /\ mcycles = 1

\* C2: the payload cell n emits toward d arrives at delta_index(n, delta(d))
\* and nowhere else, in the incoming slot of the direction that points back
\* to n; destination i holds under dir the payload its neighbor in direction
\* dir emitted toward inv(dir).
C2_Routing ==
    (mpc = "update") =>
        /\ \A i \in mupdated, dir \in MooreDirection :
              Received(i, dir) = <<delta_index(i, delta(dir)), moore_inv(dir), mcycles>>
        /\ \A n \in Indices, d \in MooreDirection :
              Copies(n, d) \subseteq {<<delta_index(n, delta(d)), moore_inv(d)>>}

C2_Witness ==
    /\ mpc = "update" /\ mupdated = Indices /\ width = 3 /\ height = 3
    /\ Received(2, "Right") = <<0, "Left", 0>>

\* ------------------------------------------------ further claims under Spec

\* C11: for a simulation given as a Rule, step leaves the cells as they were
\* at entry and yields rule(c_i, N_i) on them, update replaces the cell by
\* its diff, and after cycle() every cell i holds rule(c_i, N_i) of the
\* pre-cycle cells.
C11_RuleAdapter ==
    (sim \in Rules) =>
        /\ (pc \in {"step", "stepped"}) =>
              /\ cells = prev
              /\ \A i \in stepped :
                    collected[i + 1] = rule(sim, prev[i + 1], StepInput(prev, i))
        /\ (pc = "update") => \A i \in updated : cells[i + 1] = taken[i + 1]
        /\ (pc = "idle" /\ cycles >= 1) =>
              \A i \in Indices :
                  cells[i + 1] = rule(sim, prev[i + 1], StepInput(prev, i))

C11_Witness ==
    pc = "idle" /\ cycles = 1 /\ sim = "SumAll" /\ size >= 4 /\ cells # prev

\* C17: while the step phase runs, and until update starts, the cells are
\* those at entry of cycle(); every diff produced so far is S::step on that
\* snapshot, whatever the order of the units of work; a panic in the step
\* phase leaves the cells untouched too.
C17_StepPhaseFrame ==
    (pc \in {"step", "stepped", "panicked"}) =>
        /\ cells = prev
        /\ Len(cells) = size
        /\ \A i \in stepped : collected[i + 1] = S_step(sim, StepInput(prev, i))
        /\ \A i \in Indices \ stepped : collected[i + 1] = NoDiff

C17_Witness ==
    /\ pc = "step" /\ cycles = 1 /\ sim = "Accumulate" /\ size >= 4
    /\ stepped # {} /\ stepped # Indices /\ cells # cells0

\* C19: in one cycle() S::step and S::update are each called at most once per
\* index, and exactly once when the phase is over; the update of index i
\* consumes the diff the step of index i produced in this cycle, and no diff
\* is consumed twice.
C19_OncePerIndex ==
    /\ (pc \in {"idle", "step", "stepped", "update", "panicked"}) =>
          \A i \in Indices : hist.steps[i] <= 1 /\ hist.updates[i] <= 1
    /\ (pc \in {"stepped", "update"}) => \A i \in Indices : hist.steps[i] = 1
    /\ (pc = "update") =>
          \A i \in Indices :
              /\ hist.updates[i] = (IF i \in updated THEN 1 ELSE 0)
              /\ (i \in updated) => hist.used[i] = <<i, cycles>>
    /\ (pc = "idle" /\ cycles >= 1) =>
          \A i \in Indices :
              /\ hist.steps[i] = 1 /\ hist.updates[i] = 1
              /\ hist.used[i] = <<i, cycles - 1>>
              /\ Cardinality({j \in Indices : hist.used[j] = <<i, cycles - 1>>}) = 1

C19_Witness ==
    /\ pc = "idle" /\ cycles = 2 /\ size >= 4
    /\ \A i \in Indices : hist.used[i] = <<i, 1>>

\* ---------------------------------------------- slots a unit of work uses
\* step, index i: reads the nine cells cs(...) yields, writes slot i of the
\* collect buffer
StepReads(i) == {<<"cells", StepIndex(r, c, i)>> : r \in 0..2, c \in 0..2}
StepWrites(i) == {<<"diffs", i>>}

\* update, index i: the zip hands it &mut cells[i] and the diff of slot i
UpdateReads(i) == {<<"cells", i>>, <<"diffs", i>>}
UpdateWrites(i) == {<<"cells", i>>}

\* take_move_neighbors, index i: copies out of the moves of the four
\* neighbors through &self, and writes nothing
MoveReads(i) == {<<"moves", delta_index(i, delta(d))>> : d \in MooreDirection}

\* the slots whose content a transition changes
Changed ==
    {<<"cells", k - 1>> : k \in {n \in 1..Len(cells) : cells'[n] # cells[n]}}
    \cup {<<"diffs", k - 1>> :
             k \in {n \in 1..Len(collected) : collected'[n] # collected[n]}}

\* no slot one unit of work writes is read or written by another unit of
\* work of the same phase
RaceFree ==
    \A stepUse \in {[j \in Indices |-> StepReads(j) \cup StepWrites(j)]} :
    \A updateUse \in {[j \in Indices |->
                          UpdateReads(j) \cup UpdateWrites(j) \cup MoveReads(j)]} :
        \A i \in Indices : \A j \in Indices \ {i} :
            /\ StepWrites(i) \cap stepUse[j] = {}
            /\ UpdateWrites(i) \cap updateUse[j] = {}

\* a unit of work changes no slot but the one it may write
WritesOwnSlot ==
    /\ (pc = "step" /\ pc' = "step") =>
          /\ Cardinality(stepped' \ stepped) <= 1
          /\ \A i \in stepped' \ stepped : Changed \subseteq StepWrites(i)
    /\ (pc = "update" /\ pc' = "update") =>
          /\ Cardinality(updated' \ updated) <= 1
          /\ taken' = taken
          /\ \A i \in updated' \ updated : Changed \subseteq UpdateWrites(i)

\* C18: a step unit of work writes diff slot i only, an update unit of work
\* cell slot i only, and no slot written by one unit of work is read or
\* written by another unit of work of the same phase.
C18_RaceFreedom == []RaceFree /\ [][WritesOwnSlot]_vars

C18_Witness ==
    /\ pc = "update" /\ width = 2 /\ height = 2 /\ sim = "Accumulate"
    /\ Cardinality(updated) = 2 /\ cells # prev

\* ------------------------------------------------------ fair scheduling
\* what runs without the caller: the units of work the thread pool has been
\* handed, and the sequential code of step and update around them
Running ==
    \/ \E i \in Indices : step_unit(i)
    \/ \E i \in Indices : step_panic(i)
    \/ step_collect
    \/ update_begin
    \/ \E i \in Indices : update_unit(i)
    \/ update_end

\* the worker threads keep running the units of work they hold; whether the
\* caller calls cycle() again is up to the caller
FairSpec == Spec /\ WF_vars(Running)

\* C20 (as claimed): every cycle() that has started eventually completes both
\* phases and leaves the grid ready for the next cycle().
C20_CycleCompletes == (pc = "step") ~> (pc = "idle")

\* ------------------------------------------ neumann.rs: Neighbors container
\* from_grid_coord(i): the Neighbors of cell i, each entry the index of the
\* cell get_cell resolves to
neumann_neighbors(i) ==
    [up_left |-> neumann_neighbor(i, "UpLeft"),
     up |-> neumann_neighbor(i, "Up"),
     up_right |-> neumann_neighbor(i, "UpRight"),
     left |-> neumann_neighbor(i, "Left"),
     right |-> neumann_neighbor(i, "Right"),
     down_left |-> neumann_neighbor(i, "DownLeft"),
     down |-> neumann_neighbor(i, "Down"),
     down_right |-> neumann_neighbor(i, "DownRight")]

\* impl Index<Direction> for Neighbors
NeumannIndex(nb, ix) ==
    CASE ix = "Right" -> nb.right
      [] ix = "UpRight" -> nb.up_right
      [] ix = "Up" -> nb.up
      [] ix = "UpLeft" -> nb.up_left
      [] ix = "Left" -> nb.left
      [] ix = "DownLeft" -> nb.down_left
      [] ix = "Down" -> nb.down
      [] ix = "DownRight" -> nb.down_right

\* the physical cells the neighborhood of cell i refers to
NeighborCells(i) == {NeumannIndex(neumann_neighbors(i), d) : d \in Direction}

\* C16: on the 2 x 2 grid the 8-way neighborhood of every cell has its 8
\* entries, each the index of an existing cell, and refers to between 1 and 3
\* distinct cells; step hands S::step the same cells.
C16_SmallGridNeighborhoods ==
    (width = 2 /\ height = 2) =>
        /\ \A i \in Indices :
              /\ Cardinality(DOMAIN neumann_neighbors(i)) = 8
              /\ NeighborCells(i) \subseteq Indices
              /\ Cardinality(NeighborCells(i)) \in 1..3
              /\ {StepIndex(r, c, i) : r \in 0..2, c \in 0..2} \ {StepIndex(1, 1, i)}
                    = NeighborCells(i) \ {i}
              /\ \A d \in Direction : ~Underflows(from_grid_coord(d), i)
        /\ (qpc \in {"fetched", "returned"} /\ qtopo = "neumann") =>
              /\ qn \in Indices
              /\ qn = NeumannIndex(neumann_neighbors(qi), qd)

C16_Witness ==
    /\ width = 2 /\ height = 2 /\ qpc = "fetched" /\ qtopo = "neumann"
    /\ qi = 3 /\ qd = "DownRight" /\ qn = 2

\* ------------------------------ moore.rs / neumann.rs: container iteration
\* Largest value a container slot holds in the runs on free-standing containers.
MaxVal == 1
\* Number of iter() and of dir_iter() calls made on one container.
MaxIters == 2
\* Largest integer handed to MooreDirection::from.
MaxInt == 5

\* the variants of neumann.rs Direction in declaration order
neumann_directions ==
    <<"Right", "UpRight", "Up", "UpLeft", "Left", "DownLeft", "Down", "DownRight">>

\* the directions MooreNeighbors::new hands to f, in the order of the field
\* initialisers of its struct expression
new_order == <<"Right", "Up", "Left", "Down">>

moore_iter_swapped(nb) == <<nb.right, nb.left, nb.up, nb.down>>

\* MooreNeighbors::iter
moore_iter(nb) == <<nb.right, nb.up, nb.left, nb.down>>

\* MooreNeighbors::dir_iter
moore_dir_iter(nb) ==
    << <<"Right", nb.right>>, <<"Up", nb.up>>, <<"Left", nb.left>>,
       <<"Down", nb.down>> >>

\* Neighbors::iter
neumann_iter(nb) ==
    <<nb.right, nb.up_right, nb.up, nb.up_left, nb.left, nb.down_left, nb.down,
      nb.down_right>>

\* Neighbors::dir_iter
neumann_dir_iter(nb) ==
    << <<"Right", nb.right>>, <<"UpRight", nb.up_right>>, <<"Up", nb.up>>,
       <<"UpLeft", nb.up_left>>, <<"Left", nb.left>>,
       <<"DownLeft", nb.down_left>>, <<"Down", nb.down>>,
       <<"DownRight", nb.down_right>> >>

\* ------------------------------------- moore.rs: MooreDirection <-> usize
Panic == "panic"

from_lenient(n) ==
    CASE n = 0 -> "Right"
      [] n = 1 -> "Up"
      [] n = 2 -> "Left"
      [] OTHER -> "Down"

\* impl From<usize> for MooreDirection
from(n) ==
    CASE n = 0 -> "Right"
      [] n = 1 -> "Up"
      [] n = 2 -> "Left"
      [] n = 3 -> "Down"
      [] OTHER -> Panic

\* impl Into<usize> for MooreDirection
into(d) ==
    CASE d = "Right" -> 0
      [] d = "Up" -> 1
      [] d = "Left" -> 2
      [] d = "Down" -> 3

\* --------------------------------------- containers and conversions: runs
\* the Neighbors values with slots in 0..MaxVal
NeumannContainers ==
    [up_left : 0..MaxVal, up : 0..MaxVal, up_right : 0..MaxVal,
     left : 0..MaxVal, right : 0..MaxVal,
     down_left : 0..MaxVal, down : 0..MaxVal, down_right : 0..MaxVal]

\* One of: MooreNeighbors::new about to run with some supplier; get_neighbors
\* about to run on some cell of some grid; a Neighbors value; conversions.
InitContainer ==
    /\ build = "release"
    /\ \/ /\ ckind = "new" /\ width = 1 /\ height = 1 /\ ci = 0
          /\ csup \in [MooreDirection -> 0..MaxVal]
          /\ cont = <<>> /\ cpc = "new" /\ vpc = "off" /\ wpc = "off"
       \/ /\ ckind = "get_neighbors"
          /\ \E s \in Shapes : width = s[1] /\ height = s[2]
          /\ ci \in Indices
          /\ csup = [dir \in MooreDirection |-> delta_index(ci, delta(dir))]
          /\ cont = <<>> /\ cpc = "new" /\ vpc = "off" /\ wpc = "off"
       \/ /\ ckind = "neumann" /\ width = 1 /\ height = 1 /\ ci = 0
          /\ csup = <<>>
          /\ cont \in NeumannContainers /\ cpc = "built"
          /\ vpc = "off" /\ wpc = "off"
       \/ /\ ckind = "convert" /\ width = 1 /\ height = 1 /\ ci = 0
          /\ csup = <<>> /\ cont = <<>> /\ cpc = "off"
          /\ vpc = "idle" /\ wpc = "idle"
    /\ ccalls = <<>> /\ cvals = <<>> /\ iters = <<>> /\ diters = <<>>
    /\ vn = 0 /\ vd = "none" /\ wd = "none" /\ wn = 0 /\ wd2 = "none"
    /\ NeumannIdle /\ QueryIdle /\ MooreIdle

\* new: the next field initialiser calls f
new_call ==
    /\ cpc = "new" /\ Len(ccalls) < Len(new_order)
    /\ LET dir == new_order[Len(ccalls) + 1]
       IN /\ ccalls' = Append(ccalls, dir)
          /\ cvals' = Append(cvals, csup[dir])
    /\ UNCHANGED <<ckind, csup, ci, cont, cpc, iters, diters>>
    /\ UNCHANGED <<gridVars, neumannVars, queryVars, mooreVars, convVars>>

\* new: all initialisers evaluated, the struct is made of what f returned
new_return ==
    /\ cpc = "new" /\ Len(ccalls) = Len(new_order)
    /\ cont' = MooreNeighbors_new(
                   [dir \in MooreDirection |->
                       cvals[CHOOSE k \in 1..Len(ccalls) : ccalls[k] = dir]])
    /\ cpc' = "built"
    /\ UNCHANGED <<ckind, csup, ci, ccalls, cvals, iters, diters>>
    /\ UNCHANGED <<gridVars, neumannVars, queryVars, mooreVars, convVars>>

\* iter() on (a copy of) the MooreNeighbors value
moore_iter_call ==
    /\ cpc = "built" /\ ckind \in {"new", "get_neighbors"}
    /\ Len(iters) < MaxIters
    /\ iters' = Append(iters, moore_iter(cont))
    /\ UNCHANGED <<ckind, csup, ci, ccalls, cvals, cont, cpc, diters>>
    /\ UNCHANGED <<gridVars, neumannVars, queryVars, mooreVars, convVars>>

\* dir_iter() on the MooreNeighbors value
moore_dir_iter_call ==
    /\ cpc = "built" /\ ckind \in {"new", "get_neighbors"}
    /\ Len(diters) < MaxIters
    /\ diters' = Append(diters, moore_dir_iter(cont))
    /\ UNCHANGED <<ckind, csup, ci, ccalls, cvals, cont, cpc, iters>>
    /\ UNCHANGED <<gridVars, neumannVars, queryVars, mooreVars, convVars>>

\* iter() on the Neighbors value
neumann_iter_call ==
    /\ cpc = "built" /\ ckind = "neumann"
    /\ Len(iters) < MaxIters
    /\ iters' = Append(iters, neumann_iter(cont))
    /\ UNCHANGED <<ckind, csup, ci, ccalls, cvals, cont, cpc, diters>>
    /\ UNCHANGED <<gridVars, neumannVars, queryVars, mooreVars, convVars>>

\* dir_iter() on the Neighbors value
neumann_dir_iter_call ==
    /\ cpc = "built" /\ ckind = "neumann"
    /\ Len(diters) < MaxIters
    /\ diters' = Append(diters, neumann_dir_iter(cont))
    /\ UNCHANGED <<ckind, csup, ci, ccalls, cvals, cont, cpc, iters>>
    /\ UNCHANGED <<gridVars, neumannVars, queryVars, mooreVars, convVars>>

\* MooreDirection::from(n) returns
from_usize(n) ==
    /\ vpc = "idle" /\ from(n) # Panic
    /\ vn' = n /\ vd' = from(n) /\ vpc' = "from"
    /\ UNCHANGED <<wpc, wd, wn, wd2>>
    /\ UNCHANGED <<gridVars, neumannVars, queryVars, mooreVars, containerVars>>

\* MooreDirection::from(n) reaches panic!
from_usize_panic(n) ==
    /\ vpc = "idle" /\ from(n) = Panic
    /\ vn' = n /\ vpc' = "panicked"
    /\ UNCHANGED <<vd, wpc, wd, wn, wd2>>
    /\ UNCHANGED <<gridVars, neumannVars, queryVars, mooreVars, containerVars>>

\* d.into()
into_usize(d) ==
    /\ wpc = "idle"
    /\ wd' = d /\ wn' = into(d) /\ wpc' = "into"
    /\ UNCHANGED <<vpc, vn, vd, wd2>>
    /\ UNCHANGED <<gridVars, neumannVars, queryVars, mooreVars, containerVars>>

\* MooreDirection::from on the integer into() gave
from_back ==
    /\ wpc = "into"
    /\ wd2' = (IF from(wn) = Panic THEN "none" ELSE from(wn))
    /\ wpc' = (IF from(wn) = Panic THEN "panicked" ELSE "back")
    /\ UNCHANGED <<vpc, vn, vd, wd, wn>>
    /\ UNCHANGED <<gridVars, neumannVars, queryVars, mooreVars, containerVars>>

NextContainer ==
    \/ new_call
    \/ new_return
    \/ moore_iter_call
    \/ moore_dir_iter_call
    \/ neumann_iter_call
    \/ neumann_dir_iter_call
    \/ \E n \in 0..MaxInt : from_usize(n)
    \/ \E n \in 0..MaxInt : from_usize_panic(n)
    \/ \E d \in MooreDirection : into_usize(d)
    \/ from_back

SpecContainer == InitContainer /\ [][NextContainer]_vars

\* ------------------------------------------- claims under SpecContainer
\* the container's direction set in declaration order, and its Index
ContDirections == IF ckind = "neumann" THEN neumann_directions ELSE directions
ContIndex(d) == IF ckind = "neumann" THEN NeumannIndex(cont, d) ELSE MooreIndex(cont, d)

\* C12: every iter() call yields container[d] for d running through the
\* directions in declaration order, every dir_iter() call yields the pairs
\* (d, container[d]) in that order with each direction exactly once, and
\* repeated calls on the same container yield the same sequence.
C12_IterationOrder ==
    /\ \A k \in 1..Len(iters) :
          /\ iters[k] = [j \in 1..Len(ContDirections) |-> ContIndex(ContDirections[j])]
          /\ iters[k] = iters[1]
    /\ \A k \in 1..Len(diters) :
          /\ diters[k] = [j \in 1..Len(ContDirections) |->
                             <<ContDirections[j], ContIndex(ContDirections[j])>>]
          /\ \A d \in (IF ckind = "neumann" THEN Direction ELSE MooreDirection) :
                Cardinality({j \in 1..Len(diters[k]) : diters[k][j][1] = d}) = 1
          /\ diters[k] = diters[1]

C12_Witness ==
    /\ ckind = "new" /\ Len(iters) = MaxIters /\ Len(diters) = MaxIters
    /\ cont.up = 1 /\ cont.left = 0 /\ iters[2] = <<0, 1, 0, 0>>

\* C13: new calls the supplier once for each direction, in declaration
\* order, and only then is there a container, which holds f(d) under every d;
\* get_neighbors(i) is that container for f(d) = delta_index(i, delta(d)).
C13_Construction ==
    (ckind \in {"new", "get_neighbors"}) =>
        /\ ccalls = SubSeq(directions, 1, Len(ccalls))
        /\ (cpc = "new") => cont = <<>>
        /\ (cpc = "built") =>
              /\ ccalls = directions
              /\ \A d \in MooreDirection :
                    /\ Cardinality({k \in 1..Len(ccalls) : ccalls[k] = d}) = 1
                    /\ MooreIndex(cont, d) = csup[d]
              /\ DOMAIN cont = {"right", "up", "left", "down"}
        /\ (cpc = "built" /\ ckind = "get_neighbors") =>
              /\ cont = get_neighbors(ci)
              /\ \A d \in MooreDirection :
                    MooreIndex(cont, d) = delta_index(ci, delta(d))

C13_Witness ==
    /\ ckind = "get_neighbors" /\ cpc = "built" /\ width = 3 /\ height = 3
    /\ ci = 0 /\ cont.left = 2 /\ cont.up = 6 /\ cont.right = 1 /\ cont.down = 3

\* C15: from(n) for n outside 0..3 panics and yields no direction; inside, it
\* yields the direction at position n of the declaration order; into(d) is
\* the position of d, and from(into(d)) is d.
C15_Conversion ==
    /\ (vpc \in {"from", "panicked"} /\ vn \notin 0..3) =>
          vpc = "panicked" /\ vd = "none"
    /\ (vpc \in {"from", "panicked"} /\ vn \in 0..3) =>
          vpc = "from" /\ vd = directions[vn + 1]
    /\ (wpc \in {"into", "back", "panicked"}) =>
          wn \in 0..3 /\ directions[wn + 1] = wd
    /\ (wpc \in {"back", "panicked"}) => wpc = "back" /\ wd2 = wd

C15_Witness ==
    /\ vpc = "panicked" /\ vn = 4 /\ vd = "none"
    /\ wpc = "back" /\ wd = "Down" /\ wn = 3 /\ wd2 = "Down"

\* ------------------------------------------- further claims under SpecMoore
\* the directions toward which cell n has emitted a payload in this cycle
Emitted(n) ==
    {d \in MooreDirection :
        \E f \in MooreDirection :
            /\ take_move_direction(n, f) # "none"
            /\ take_move_direction(n, f)[2] = d
            /\ take_move_direction(n, f)[3] = mcycles}

\* the slots of cell n that hold a payload of this cycle toward d
SlotsToward(n, d) ==
    {f \in MooreDirection :
        /\ take_move_direction(n, f) # "none"
        /\ take_move_direction(n, f)[2] = d
        /\ take_move_direction(n, f)[3] = mcycles}

====
